---- MODULE Spec2Model ----
(***************************************************************************)
(* Model of scripts/analyze_coverage.py: one sequential pass that reads    *)
(* coverage.out line by line, folds the records into pkg_stats, builds and *)
(* sorts the report rows and prints two tables and an overall line.        *)
(*                                                                         *)
(* Text is modelled at the level of atoms.  A line is the sequence of its  *)
(* whitespace-separated fields (what line.strip().split() returns); the    *)
(* first field is a sequence of path atoms ("/" and ":" are atoms of their *)
(* own), a numeric field is a sequence of characters.  Percentages are     *)
(* exact rationals <<numerator, denominator>> with a positive denominator; *)
(* for the counts reachable here the float quotient covered/total*100      *)
(* orders and compares with 75 exactly as the rational does.  The fixed    *)
(* header and divider lines and the fixed-width text rendering of a row    *)
(* are not modelled: a printed row is the tuple of values handed to print. *)
(***************************************************************************)
EXTENDS Integers, Sequences, FiniteSets, TLC

\* Largest number of lines of coverage.out that is explored.
MaxLines == 3

----------------------------------------------------------------------------
\* Text helpers

Digits == {"0", "1", "2", "3", "4", "5", "6", "7", "8", "9"}

DigitVal(c) ==
    CASE c = "0" -> 0 [] c = "1" -> 1 [] c = "2" -> 2 [] c = "3" -> 3
      [] c = "4" -> 4 [] c = "5" -> 5 [] c = "6" -> 6 [] c = "7" -> 7
      [] c = "8" -> 8 [] c = "9" -> 9

\* The digits of a token after an optional sign.
IntBody(tok) ==
    IF Len(tok) > 0 /\ tok[1] \in {"-", "+"} THEN Tail(tok) ELSE tok

\* int(tok) does not raise ValueError: optional sign, then one or more digits
\* (the explored tokens have no underscores or other characters int accepts).
IsInt(tok) ==
    /\ Len(IntBody(tok)) > 0
    /\ \A i \in 1..Len(IntBody(tok)) : IntBody(tok)[i] \in Digits

RECURSIVE DecimalValue(_)
DecimalValue(ds) ==
    IF ds = <<>> THEN 0
    ELSE 10 * DecimalValue(SubSeq(ds, 1, Len(ds) - 1)) + DigitVal(ds[Len(ds)])

\* The value of int(tok) for a token that parses.
IntOf(tok) ==
    IF Len(tok) > 0 /\ tok[1] = "-" THEN 0 - DecimalValue(IntBody(tok))
    ELSE DecimalValue(IntBody(tok))

\* field.split(':')[0]: everything before the first colon.
SplitColon(field) ==
    LET colons == {i \in 1..Len(field) : field[i] = ":"}
    IN  IF colons = {} THEN field
        ELSE SubSeq(field, 1, (CHOOSE i \in colons : \A j \in colons : i <= j) - 1)

\* The literal part of the pattern, github\.com/junbin-yang/go-kitbox/pkg/
Prefix == <<"github.com/junbin-yang/go-kitbox", "/", "pkg", "/">>

NoMatch == <<>>

\* Number of leading atoms of s that are not "/" (the greedy [^/]+).
RECURSIVE SegmentLen(_)
SegmentLen(s) ==
    IF s = <<>> \/ s[1] = "/" THEN 0 ELSE 1 + SegmentLen(Tail(s))

\* re.match(r'(github\.com/junbin-yang/go-kitbox/pkg/[^/]+)', path).group(1),
\* or NoMatch when the pattern does not match at the start of path.
PkgMatch(path) ==
    IF /\ Len(path) > Len(Prefix)
       /\ SubSeq(path, 1, Len(Prefix)) = Prefix
       /\ SegmentLen(SubSeq(path, Len(Prefix) + 1, Len(path))) > 0
    THEN SubSeq(path, 1, Len(Prefix)
                 + SegmentLen(SubSeq(path, Len(Prefix) + 1, Len(path))))
    ELSE NoMatch

\* pkg.split('/')[-1]: the atoms after the last "/".
PkgName(pkg) ==
    LET slashes == {i \in 1..Len(pkg) : pkg[i] = "/"}
    IN  IF slashes = {} THEN pkg
        ELSE SubSeq(pkg, (CHOOSE i \in slashes : \A j \in slashes : i >= j) + 1,
                    Len(pkg))

\* line.startswith('mode:')
StartsWithMode(line) ==
    /\ Len(line) >= 1
    /\ Len(line[1]) >= 2
    /\ line[1][1] = "mode"
    /\ line[1][2] = ":"

----------------------------------------------------------------------------
\* The explored input lines

FieldA == Prefix \o <<"a", "/", "f.go", ":", "1.1,2.2">>
FieldB == Prefix \o <<"b", "/", "f.go", ":", "1.1,2.2">>
FieldC == Prefix \o <<"c", "/", "f.go", ":", "1.1,2.2">>
\* a path outside pkg/
FieldCmd == <<"github.com/junbin-yang/go-kitbox", "/", "cmd", "/", "a", "/",
              "f.go", ":", "1.1,2.2">>
\* the prefix with nothing after it
FieldBare == Prefix \o <<":", "1.1,2.2">>
FieldMode == <<"mode", ":">>

LineSet ==
    { <<FieldMode, <<"s", "e", "t">>, <<"x">>>>,   \* mode: set x
      <<FieldA, <<"5">>>>,                         \* two fields
      <<FieldA, <<"3">>, <<"1">>>>,
      <<FieldA, <<"1">>, <<"0">>>>,
      <<FieldA, <<"2">>, <<"0">>>>,
      <<FieldA, <<"1">>, <<"2">>>>,
      <<FieldA, <<"0">>, <<"0">>>>,
      <<FieldA, <<"-", "1">>, <<"0">>>>,
      <<FieldA, <<"x">>, <<"1">>>>,
      <<FieldB, <<"1">>, <<"0">>>>,
      <<FieldC, <<"1", "0">>, <<"1">>>>,
      <<FieldCmd, <<"5">>, <<"1">>>>,
      <<FieldCmd, <<"5">>, <<"x">>>>,
      <<FieldBare, <<"1">>, <<"1">>>> }

RECURSIVE SeqsUpTo(_)
SeqsUpTo(n) ==
    IF n = 0 THEN {<<>>}
    ELSE SeqsUpTo(n - 1)
         \cup {Append(s, l) : s \in {t \in SeqsUpTo(n - 1) : Len(t) = n - 1},
                              l \in LineSet}

Inputs == SeqsUpTo(MaxLines)

----------------------------------------------------------------------------
\* The fold

\* pkg_stats = defaultdict(lambda: {'total': 0, 'covered': 0})
NewAggregate == [total |-> 0, covered |-> 0]

Aggregate(stats, pkg) ==
    IF pkg \in DOMAIN stats THEN stats[pkg] ELSE NewAggregate

\* FoldRecord adding the execution count, not the statement count, to covered.
FoldRecord_ExecCount(stats, pkg, statements, covered) ==
    [p \in DOMAIN stats \cup {pkg} |->
        IF p = pkg
        THEN [total   |-> Aggregate(stats, pkg).total + statements,
              covered |-> IF covered > 0
                          THEN Aggregate(stats, pkg).covered + covered
                          ELSE Aggregate(stats, pkg).covered]
        ELSE stats[p]]

\* FoldRecord counting every record as covered.
FoldRecord_AlwaysCovered(stats, pkg, statements, covered) ==
    [p \in DOMAIN stats \cup {pkg} |->
        IF p = pkg
        THEN [total   |-> Aggregate(stats, pkg).total + statements,
              covered |-> Aggregate(stats, pkg).covered + statements]
        ELSE stats[p]]

\* FoldRecord assigning the counts of the record instead of adding them.
FoldRecord_Overwrite(stats, pkg, statements, covered) ==
    [p \in DOMAIN stats \cup {pkg} |->
        IF p = pkg
        THEN [total   |-> statements,
              covered |-> IF covered > 0 THEN statements
                          ELSE Aggregate(stats, pkg).covered]
        ELSE stats[p]]

\* Lines 24-27 on the aggregate of pkg; covered is the execution count.
FoldRecord(stats, pkg, statements, covered) ==
    [p \in DOMAIN stats \cup {pkg} |->
        IF p = pkg
        THEN [total   |-> Aggregate(stats, pkg).total + statements,
              covered |-> IF covered > 0
                          THEN Aggregate(stats, pkg).covered + statements
                          ELSE Aggregate(stats, pkg).covered]
        ELSE stats[p]]

\* LineOutcome without the mode: check of line 10.
LineOutcome_NoModeCheck(line) ==
    IF Len(line) < 3 THEN "short"
    ELSE IF ~IsInt(line[3]) THEN "error"
    ELSE IF PkgMatch(SplitColon(line[1])) = NoMatch THEN "nomatch"
    ELSE IF ~IsInt(line[2]) THEN "error"
    ELSE "fold"

\* Which way the loop body (lines 10-27) goes on one line.
LineOutcome(line) ==
    IF StartsWithMode(line) THEN "mode"
    ELSE IF Len(line) < 3 THEN "short"
    ELSE IF ~IsInt(line[3]) THEN "error"
    ELSE IF PkgMatch(SplitColon(line[1])) = NoMatch THEN "nomatch"
    ELSE IF ~IsInt(line[2]) THEN "error"
    ELSE "fold"

\* pkg_stats after the loop body ran on a line that did not raise.
ApplyLine(stats, line) ==
    IF LineOutcome(line) = "fold"
    THEN FoldRecord(stats, PkgMatch(SplitColon(line[1])),
                    IntOf(line[2]), IntOf(line[3]))
    ELSE stats

----------------------------------------------------------------------------
\* The report

\* covered / total * 100 as an exact rational; total is positive.
Coverage(covered, total) == <<covered * 100, total>>

RatLess(a, b) == a[1] * b[2] < b[1] * a[2]

RatLeq(a, b) == a[1] * b[2] <= b[1] * a[2]

Threshold == <<75, 1>>

\* Status with a strict comparison.
Status_Strict(coverage) ==
    IF RatLess(Threshold, coverage) THEN "Good" ELSE "Needs Work"

\* "Good" if coverage >= 75 else "Needs Work"
Status(coverage) ==
    IF RatLeq(Threshold, coverage) THEN "Good" ELSE "Needs Work"

\* Order of the characters that distinguish the explored package keys.
AtomRank(a) ==
    CASE a = "a" -> 1 [] a = "b" -> 2 [] a = "c" -> 3 [] OTHER -> 0

\* String comparison of two package keys, atom by atom.
RECURSIVE KeyLess(_, _)
KeyLess(k1, k2) ==
    IF k2 = <<>> THEN FALSE
    ELSE IF k1 = <<>> THEN TRUE
    ELSE IF k1[1] = k2[1] THEN KeyLess(Tail(k1), Tail(k2))
    ELSE AtomRank(k1[1]) < AtomRank(k2[1])

\* The keys of sorted(pkg_stats.items()), in order.
RECURSIVE SortedKeys(_)
SortedKeys(keys) ==
    IF keys = {} THEN <<>>
    ELSE LET least == CHOOSE k \in keys : \A o \in keys \ {k} : KeyLess(k, o)
         IN  <<least>> \o SortedKeys(keys \ {least})

\* The tuple appended to results for one package (lines 38-40).
ResultRow(pkg, stats) ==
    [pkg      |-> pkg,
     coverage |-> Coverage(stats[pkg].covered, stats[pkg].total),
     status   |-> Status(Coverage(stats[pkg].covered, stats[pkg].total)),
     total    |-> stats[pkg].total,
     covered  |-> stats[pkg].covered]

\* BuildRows without the total > 0 guard of line 37.
RECURSIVE BuildRows_NoGuard(_, _)
BuildRows_NoGuard(keys, stats) ==
    IF keys = <<>> THEN <<>>
    ELSE <<ResultRow(keys[1], stats)>> \o BuildRows_NoGuard(Tail(keys), stats)

\* The loop of lines 36-40 over the sorted keys.
RECURSIVE BuildRows(_, _)
BuildRows(keys, stats) ==
    IF keys = <<>> THEN <<>>
    ELSE IF stats[keys[1]].total > 0
         THEN <<ResultRow(keys[1], stats)>> \o BuildRows(Tail(keys), stats)
         ELSE BuildRows(Tail(keys), stats)

\* Put row behind every row of the sorted sequence whose key is not larger.
RECURSIVE InsertByCoverage(_, _)
InsertByCoverage(row, sorted) ==
    IF sorted = <<>> THEN <<row>>
    ELSE IF RatLess(row.coverage, sorted[1].coverage) THEN <<row>> \o sorted
    ELSE <<sorted[1]>> \o InsertByCoverage(row, Tail(sorted))

\* SortByCoverage leaving the rows in key order.
SortByCoverage_None(rows) == rows

\* results.sort(key=lambda x: x[1]): the stable ascending sort by coverage.
RECURSIVE SortByCoverage(_)
SortByCoverage(rows) ==
    IF rows = <<>> THEN <<>>
    ELSE InsertByCoverage(rows[Len(rows)],
                          SortByCoverage(SubSeq(rows, 1, Len(rows) - 1)))

\* What the first table prints for one row (line 47).
Table1Row(row) ==
    [pkg_name |-> PkgName(row.pkg), coverage |-> row.coverage,
     status |-> row.status]

\* What the second table prints for one row (lines 61-63).
Table2Row(row) ==
    [pkg_name |-> PkgName(row.pkg), coverage |-> row.coverage,
     missing |-> row.total - row.covered]

\* NeedsImprovement keeping the rows at the threshold too.
NeedsImprovement_Leq(row) == RatLeq(row.coverage, Threshold)

\* The rows the second table keeps (line 60).
NeedsImprovement(row) == RatLess(row.coverage, Threshold)

RECURSIVE SumField(_, _, _)
SumField(stats, keys, totalField) ==
    IF keys = {} THEN 0
    ELSE LET k == CHOOSE x \in keys : TRUE
         IN  (IF totalField THEN stats[k].total ELSE stats[k].covered)
             + SumField(stats, keys \ {k}, totalField)

\* sum(s['total'] for s in pkg_stats.values())
OverallTotal(stats) == SumField(stats, DOMAIN stats, TRUE)

\* sum(s['covered'] for s in pkg_stats.values())
OverallCovered(stats) == SumField(stats, DOMAIN stats, FALSE)

\* OverallCoverage summed over the packages that have a report row only.
OverallCoverage_RowsOnly(stats) ==
    LET shown == {k \in DOMAIN stats : stats[k].total > 0}
    IN  IF SumField(stats, shown, TRUE) > 0
        THEN Coverage(SumField(stats, shown, FALSE), SumField(stats, shown, TRUE))
        ELSE <<0, 1>>

\* Line 52.
OverallCoverage(stats) ==
    IF OverallTotal(stats) > 0
    THEN Coverage(OverallCovered(stats), OverallTotal(stats))
    ELSE <<0, 1>>

----------------------------------------------------------------------------
\* The program

VARIABLES lines, idx, pkg_stats, pc, results, table1, overall_coverage, table2

vars == <<lines, idx, pkg_stats, pc, results, table1, overall_coverage, table2>>

\* overall_coverage before line 52 ran.
NotPrinted == <<>>

Init ==
    /\ lines \in Inputs
    /\ idx = 1
    /\ pkg_stats = <<>>
    /\ pc = "loop"
    /\ results = <<>>
    /\ table1 = <<>>
    /\ overall_coverage = NotPrinted
    /\ table2 = <<>>

InLoop == pc = "loop" /\ idx <= Len(lines)

\* Line 10-11: a line that starts with mode: is passed over.
SkipMode ==
    /\ InLoop
    /\ LineOutcome(lines[idx]) = "mode"
    /\ idx' = idx + 1
    /\ UNCHANGED <<lines, pkg_stats, pc, results, table1, overall_coverage, table2>>

\* Lines 13-15: a line with fewer than three fields is passed over.
SkipShort ==
    /\ InLoop
    /\ LineOutcome(lines[idx]) = "short"
    /\ idx' = idx + 1
    /\ UNCHANGED <<lines, pkg_stats, pc, results, table1, overall_coverage, table2>>

\* Line 18 or 24: int() raises ValueError, the program ends with a traceback.
RaiseValueError ==
    /\ InLoop
    /\ LineOutcome(lines[idx]) = "error"
    /\ pc' = "crashed"
    /\ UNCHANGED <<lines, idx, pkg_stats, results, table1, overall_coverage, table2>>

\* Lines 21-22: the path does not match the pattern.
SkipNoMatch ==
    /\ InLoop
    /\ LineOutcome(lines[idx]) = "nomatch"
    /\ idx' = idx + 1
    /\ UNCHANGED <<lines, pkg_stats, pc, results, table1, overall_coverage, table2>>

\* Lines 17-27: a record of a package is folded into pkg_stats.
FoldLine ==
    /\ InLoop
    /\ LineOutcome(lines[idx]) = "fold"
    /\ pkg_stats' = ApplyLine(pkg_stats, lines[idx])
    /\ idx' = idx + 1
    /\ UNCHANGED <<lines, pc, results, table1, overall_coverage, table2>>

\* Lines 35-40, after the last line was read.
BuildResults ==
    /\ pc = "loop"
    /\ idx > Len(lines)
    /\ results' = BuildRows(SortedKeys(DOMAIN pkg_stats), pkg_stats)
    /\ pc' = "sort"
    /\ UNCHANGED <<lines, idx, pkg_stats, table1, overall_coverage, table2>>

\* Line 43.
SortResults ==
    /\ pc = "sort"
    /\ results' = SortByCoverage(results)
    /\ pc' = "table1"
    /\ UNCHANGED <<lines, idx, pkg_stats, table1, overall_coverage, table2>>

\* Lines 45-47.
PrintTable1 ==
    /\ pc = "table1"
    /\ table1' = [i \in 1..Len(results) |-> Table1Row(results[i])]
    /\ pc' = "overall"
    /\ UNCHANGED <<lines, idx, pkg_stats, results, overall_coverage, table2>>

\* Lines 49-54.
PrintOverall ==
    /\ pc = "overall"
    /\ overall_coverage' = OverallCoverage(pkg_stats)
    /\ pc' = "table2"
    /\ UNCHANGED <<lines, idx, pkg_stats, results, table1, table2>>

\* Lines 57-63.
PrintTable2 ==
    /\ pc = "table2"
    /\ LET kept == SelectSeq(results, NeedsImprovement)
       IN  table2' = [i \in 1..Len(kept) |-> Table2Row(kept[i])]
    /\ pc' = "done"
    /\ UNCHANGED <<lines, idx, pkg_stats, results, table1, overall_coverage>>

Next ==
    \/ SkipMode
    \/ SkipShort
    \/ RaiseValueError
    \/ SkipNoMatch
    \/ FoldLine
    \/ BuildResults
    \/ SortResults
    \/ PrintTable1
    \/ PrintOverall
    \/ PrintTable2

Spec == Init /\ [][Next]_vars

----------------------------------------------------------------------------
\* Properties

\* The line the loop is about to process.
Current == lines[idx]

\* The path of a line that has a first field.
PathOf(line) == SplitColon(line[1])

\* A line that is a coverage record with non-negative counts, or no record.
WellFormedLine(line) ==
    \/ StartsWithMode(line)
    \/ Len(line) < 3
    \/ /\ IsInt(line[2]) /\ IntOf(line[2]) >= 0
       /\ IsInt(line[3]) /\ IntOf(line[3]) >= 0

\* Every line read so far is well formed.
WellFormedSoFar ==
    \A i \in 1..Len(lines) : i < idx => WellFormedLine(lines[i])

LoopFinished == idx > Len(lines)

\* C1: while well-formed lines are folded, in whatever order they come,
\* every package aggregate has covered <= total.
C1_CoveredLeqTotal ==
    WellFormedSoFar =>
        \A p \in DOMAIN pkg_stats : pkg_stats[p].covered <= pkg_stats[p].total

\* Two well-formed records of one package were folded, one executed and one
\* not, and the loop goes on.
C1_Witness ==
    /\ pc = "loop"
    /\ idx = 3
    /\ WellFormedSoFar
    /\ \E p \in DOMAIN pkg_stats :
          /\ 0 < pkg_stats[p].covered
          /\ pkg_stats[p].covered < pkg_stats[p].total

\* The line is a record of a package: three fields, two integers, a path
\* that matches the pattern.
IsPackageRecord(line) ==
    /\ ~StartsWithMode(line)
    /\ Len(line) >= 3
    /\ IsInt(line[2])
    /\ IsInt(line[3])
    /\ PkgMatch(PathOf(line)) # NoMatch

\* C2: folding one record of package p with statement count s and execution
\* count e adds s to p's total, adds s to p's covered when e > 0 and nothing
\* when e = 0, and leaves the aggregate of every other package as it was.
C2_FoldEffect ==
    [][ (InLoop /\ IsPackageRecord(Current)) =>
            LET p == PkgMatch(PathOf(Current))
                s == IntOf(Current[2])
                e == IntOf(Current[3])
            IN  /\ DOMAIN pkg_stats' = DOMAIN pkg_stats \cup {p}
                /\ pkg_stats'[p].total = Aggregate(pkg_stats, p).total + s
                /\ e > 0 =>
                     pkg_stats'[p].covered = Aggregate(pkg_stats, p).covered + s
                /\ e = 0 =>
                     pkg_stats'[p].covered = Aggregate(pkg_stats, p).covered
                /\ \A q \in DOMAIN pkg_stats \ {p} :
                     pkg_stats'[q] = pkg_stats[q] ]_vars

\* An unexecuted record with a positive statement count was folded into a
\* package that had an aggregate, while another package has one too.
C2_Witness ==
    /\ pc = "loop"
    /\ idx = 4
    /\ IsPackageRecord(lines[3])
    /\ IntOf(lines[3][3]) = 0
    /\ IntOf(lines[3][2]) > 0
    /\ IsPackageRecord(lines[1])
    /\ PkgMatch(PathOf(lines[1])) = PkgMatch(PathOf(lines[3]))
    /\ Cardinality(DOMAIN pkg_stats) = 2

\* The whole loop of lines 9-27 on a sequence of lines, from an aggregate map.
RECURSIVE FoldAll(_, _)
FoldAll(stats, input) ==
    IF input = <<>> THEN [raised |-> FALSE, stats |-> stats]
    ELSE IF LineOutcome(input[1]) = "error"
         THEN [raised |-> TRUE, stats |-> stats]
         ELSE FoldAll(ApplyLine(stats, input[1]), Tail(input))

Orders(n) ==
    {f \in [1..n -> 1..n] : \A i, j \in 1..n : f[i] = f[j] => i = j}

Permuted(input, f) == [i \in 1..Len(input) |-> input[f[i]]]

\* C3: the aggregates after the last line are the aggregates the loop
\* computes on any permutation of the lines.
C3_OrderIndependent ==
    (pc = "loop" /\ LoopFinished) =>
        \A f \in Orders(Len(lines)) :
            FoldAll(<<>>, Permuted(lines, f))
                = [raised |-> FALSE, stats |-> pkg_stats]

\* Three different records, two of them of one package, were folded.
C3_Witness ==
    /\ pc = "loop"
    /\ LoopFinished
    /\ Len(lines) = 3
    /\ \A i \in 1..3 : IsPackageRecord(lines[i])
    /\ lines[1] # lines[2] /\ lines[2] # lines[3] /\ lines[1] # lines[3]
    /\ PkgMatch(PathOf(lines[1])) = PkgMatch(PathOf(lines[3]))
    /\ PkgMatch(PathOf(lines[1])) # PkgMatch(PathOf(lines[2]))

\* C4: a line of three or more fields whose path does not match the pattern
\* is passed over: no error, no aggregate created or changed, the loop goes
\* on with the next line.
C4_NoMatchSilent ==
    [][ (InLoop /\ Len(Current) >= 3 /\ PkgMatch(PathOf(Current)) = NoMatch) =>
            /\ pc' = "loop"
            /\ idx' = idx + 1
            /\ pkg_stats' = pkg_stats ]_vars

\* The aggregate a printed row of the given short name belongs to.
AggregateNamed(name) ==
    pkg_stats[CHOOSE p \in DOMAIN pkg_stats : PkgName(p) = name]

\* C5: a report row is labelled "Good" exactly if 100 * covered is at least
\* 75 * total, and "Needs Work" otherwise; 75% is "Good".
C5_StatusGood ==
    /\ \A i \in 1..Len(results) :
          /\ results[i].total = pkg_stats[results[i].pkg].total
          /\ results[i].covered = pkg_stats[results[i].pkg].covered
          /\ results[i].status = "Good"
               <=> 100 * results[i].covered >= 75 * results[i].total
          /\ results[i].status = "Needs Work"
               <=> 100 * results[i].covered < 75 * results[i].total
    /\ \A i \in 1..Len(table1) :
          /\ table1[i].status = "Good"
               <=> 100 * AggregateNamed(table1[i].pkg_name).covered
                     >= 75 * AggregateNamed(table1[i].pkg_name).total
          /\ table1[i].status = "Needs Work"
               <=> 100 * AggregateNamed(table1[i].pkg_name).covered
                     < 75 * AggregateNamed(table1[i].pkg_name).total

\* A package at exactly 75% was printed as "Good" next to one below 75%.
C5_Witness ==
    /\ pc = "done"
    /\ \E i \in 1..Len(table1) :
          /\ table1[i].status = "Good"
          /\ 100 * AggregateNamed(table1[i].pkg_name).covered
               = 75 * AggregateNamed(table1[i].pkg_name).total
    /\ \E i \in 1..Len(table1) : table1[i].status = "Needs Work"

\* Sum of one rational-free count over all aggregates, by the sorted keys.
RECURSIVE SumOver(_, _)
SumOver(keys, totalField) ==
    IF keys = <<>> THEN 0
    ELSE (IF totalField THEN pkg_stats[keys[1]].total
          ELSE pkg_stats[keys[1]].covered)
         + SumOver(Tail(keys), totalField)

AllTotal == SumOver(SortedKeys(DOMAIN pkg_stats), TRUE)

AllCovered == SumOver(SortedKeys(DOMAIN pkg_stats), FALSE)

\* C6: the overall percentage printed is 100 * (sum of covered) / (sum of
\* total) over all aggregates, and 0 when there is nothing to divide by, in
\* particular when no aggregate exists.
C6_Overall ==
    overall_coverage # NotPrinted =>
        /\ AllTotal > 0 =>
             overall_coverage[1] * AllTotal = 100 * AllCovered * overall_coverage[2]
        /\ AllTotal = 0 => overall_coverage[1] = 0
        /\ overall_coverage[2] > 0

\* The overall line was printed while one aggregate has no report row and
\* changes the sums.
C6_Witness ==
    /\ pc = "done"
    /\ AllTotal > 0
    /\ AllCovered > 0
    /\ \E p \in DOMAIN pkg_stats : pkg_stats[p].total < 0
    /\ Len(results) >= 1

\* The overall line was printed and no aggregate exists.
C6_WitnessEmpty ==
    /\ pc = "done"
    /\ DOMAIN pkg_stats = {}
    /\ overall_coverage = <<0, 1>>

\* The place of the row of a short name in the first table.
Table1Index(name) == CHOOSE i \in 1..Len(table1) : table1[i].pkg_name = name

\* C7: the rows of the first table are in ascending order of percentage,
\* and the rows of the second table are in the same relative order.
C7_Ascending ==
    /\ \A i \in 1..Len(table1) :
          i < Len(table1) => RatLeq(table1[i].coverage, table1[i + 1].coverage)
    /\ \A i \in 1..Len(table1) :
          table1[i].coverage
            = Coverage(AggregateNamed(table1[i].pkg_name).covered,
                       AggregateNamed(table1[i].pkg_name).total)
    /\ \A i, j \in 1..Len(table2) :
          i < j =>
            /\ \E k \in 1..Len(table1) : table1[k].pkg_name = table2[i].pkg_name
            /\ \E k \in 1..Len(table1) : table1[k].pkg_name = table2[j].pkg_name
            /\ Table1Index(table2[i].pkg_name) < Table1Index(table2[j].pkg_name)

\* Both tables were printed, the sort moved a package with a larger key to
\* the front, and the second table has two rows of different percentages.
C7_Witness ==
    /\ pc = "done"
    /\ Len(table1) >= 2
    /\ KeyLess(table1[2].pkg_name, table1[1].pkg_name)
    /\ Len(table2) >= 2
    /\ RatLess(table2[1].coverage, table2[2].coverage)

\* C8: a line that starts with mode: or has fewer than three fields is
\* passed over: no error, no aggregate changes, the loop goes on with the
\* next line.
C8_SkipModeAndShort ==
    [][ (InLoop /\ (StartsWithMode(Current) \/ Len(Current) < 3)) =>
            /\ pc' = "loop"
            /\ idx' = idx + 1
            /\ pkg_stats' = pkg_stats ]_vars

\* A mode line of three fields and a short line were passed over after a
\* record was folded, and the loop goes on.
C8_Witness ==
    /\ pc = "loop"
    /\ idx = 4
    /\ IsPackageRecord(lines[1])
    /\ StartsWithMode(lines[2]) /\ Len(lines[2]) >= 3
    /\ ~StartsWithMode(lines[3]) /\ Len(lines[3]) < 3
    /\ DOMAIN pkg_stats # {}

\* The short names of the packages below 75%.
Below75 ==
    {PkgName(p) : p \in {q \in DOMAIN pkg_stats :
                            /\ pkg_stats[q].total > 0
                            /\ 100 * pkg_stats[q].covered < 75 * pkg_stats[q].total}}

\* C9: the second table has exactly the report rows below 75%, which are the
\* rows labelled "Needs Work", each once, and shows total - covered of the
\* package for each.
C9_SecondTable ==
    pc = "done" =>
        /\ {table2[i].pkg_name : i \in 1..Len(table2)} = Below75
        /\ {table1[i].pkg_name :
               i \in {j \in 1..Len(table1) : table1[j].status = "Needs Work"}}
             = Below75
        /\ Len(table2) = Cardinality(Below75)
        /\ \A i \in 1..Len(table2) :
              table2[i].missing = AggregateNamed(table2[i].pkg_name).total
                                    - AggregateNamed(table2[i].pkg_name).covered

\* The second table was printed with the row of a package that lacks covered
\* statements while a package at exactly 75% is left out of it.
C9_Witness ==
    /\ pc = "done"
    /\ Len(table2) >= 1
    /\ \E i \in 1..Len(table2) : table2[i].missing > 0
    /\ \E p \in DOMAIN pkg_stats :
          /\ pkg_stats[p].total > 0
          /\ 100 * pkg_stats[p].covered = 75 * pkg_stats[p].total

\* C10 as stated: every existing aggregate has total > 0.
C10_TotalPositive ==
    \A p \in DOMAIN pkg_stats : pkg_stats[p].total > 0

\* C10, amended: a record with statement count 0 creates an aggregate too, so
\* for well-formed input every aggregate has total >= 0; the report has one
\* row for each aggregate with total > 0 and none for any other.
C10_RowsForPositiveTotals ==
    /\ WellFormedSoFar =>
          \A p \in DOMAIN pkg_stats : pkg_stats[p].total >= 0
    /\ pc \notin {"loop", "crashed"} =>
          /\ {results[i].pkg : i \in 1..Len(results)}
               = {p \in DOMAIN pkg_stats : pkg_stats[p].total > 0}
          /\ Len(results)
               = Cardinality({p \in DOMAIN pkg_stats : pkg_stats[p].total > 0})

\* The rows were built from well-formed input while one aggregate has total 0
\* and another one has a row.
C10_Witness ==
    /\ pc = "sort"
    /\ WellFormedSoFar
    /\ \E p \in DOMAIN pkg_stats : pkg_stats[p].total = 0
    /\ Len(results) >= 1

====
